---- MODULE Spec2Model ----
(***************************************************************************)
(* Model of the render-state cache (StateCache) and the resource binding   *)
(* cache (EngineContext::prepare_cache / prepare_cache_tex) of             *)
(* src/engine/context.rs.                                                  *)
(*                                                                         *)
(* Rc<T> values are identities drawn from finite pools; an identity is     *)
(* alive while some owner outside the cache holds a strong reference.  A   *)
(* Weak<T> is the identity it was downgraded from, or the null identity    *)
(* for Weak::new(); it upgrades iff that identity is alive.  Because a     *)
(* Weak keeps the allocation of its referent reserved, an identity is      *)
(* handed out again only when no Weak held by the context names it.        *)
(***************************************************************************)
EXTENDS Integers, Sequences, FiniteSets, TLC

\* ------------------------------------------------------------------ bounds
\* Capacity the texture table is checked at (context.rs sets 8; the code
\* depends on the value only through the comparison `unit >= MAX_TEXTURE_UNITS`).
MaxUnits == 2
\* Number of texture identities that can exist at the same time.
NumTextures == 3

MAX_TEXTURE_UNITS == MaxUnits

Textures == 1 .. NumTextures
\* Weak::new(): refers to nothing, never upgrades.
NoTex == 0


VARIABLES
    textures,   \* EngineContext::textures : VecDeque<(u32, Weak<Texture>)>
    alive,      \* textures that currently have a strong owner
    texCall,    \* observation of the last prepare_cache_tex call
    recency,    \* live textures ordered by their most recent request
    failedUnit, \* unit of the last failed bind not yet followed by an allocating call
    device      \* per unit, the texture of the last successful bind callback there

texVars == <<textures, alive, texCall, recency, failedUnit, device>>

VARIABLES
    prog,         \* EngineContext::prog : Weak<ShaderProgram>
    mesh_buffer,  \* EngineContext::mesh_buffer : Weak<MeshBuffer>
    aliveRes,     \* per kind, the resources that currently have a strong owner
    slotCall      \* per kind, observation of the last prepare_cache call

slotVars == <<prog, mesh_buffer, aliveRes, slotCall>>

VARIABLES
    state,    \* StateCache::state : what the cache has last sent to the device
    curr,     \* StateCache::curr : the merged desired state
    gl,       \* the device's render state, as far as the cache's calls set it
    glCalls,  \* the device calls issued by the last operation, in order
    lastOp,   \* the last StateCache operation
    recordOverlay,  \* whether apply's argument is observed (fixed per behaviour)
    lastOverlay     \* the overlay the last operation was given, when observed

stateVars == <<state, curr, gl, glCalls, lastOp, recordOverlay, lastOverlay>>

vars == <<texVars, slotVars, stateVars>>

\* ------------------------------------------------------- sequence helpers
\* VecDeque::remove(pos) with a 0-based position.
RemoveAt(s, pos) == [i \in 1 .. (Len(s) - 1) |-> IF i <= pos THEN s[i] ELSE s[i + 1]]

\* Weak<Texture>::upgrade().is_some()
Upgrades(al, w) == w \in al

\* 0-based positions of the entries of tab satisfying the liveness test
LivePositions(tab, al, t) == {p \in 0 .. (Len(tab) - 1) : Upgrades(al, tab[p + 1][2]) /\ tab[p + 1][2] = t}

Min(S) == CHOOSE x \in S : \A y \in S : x <= y

\* Faulty variant of the lookup: an entry is never found.
find_cache_tex_NeverFound(tab, al, new_tex) == [found |-> FALSE]

\* ----------------------------------------------------------- find_cache_tex
\* Option<(usize, u32)>: the first entry whose weak reference upgrades to new_tex.
find_cache_tex(tab, al, new_tex) ==
    LET hits == LivePositions(tab, al, new_tex)
    IN  IF hits = {} THEN [found |-> FALSE]
        ELSE [found |-> TRUE, pos |-> Min(hits), unit |-> tab[Min(hits) + 1][1]]

\* ------------------------------------------------------------ unit selection
DeadPositions(tab, al) == {p \in 0 .. (Len(tab) - 1) : ~Upgrades(al, tab[p + 1][2])}

\* Faulty variants of unit selection.
\* (a) at capacity the entry whose unit is taken stays in the table
SelectUnit_KeepsEntry(tab, al) ==
    IF Len(tab) >= MAX_TEXTURE_UNITS
    THEN IF DeadPositions(tab, al) # {}
         THEN [unit |-> tab[Min(DeadPositions(tab, al)) + 1][1], rest |-> tab, removed |-> <<>>]
         ELSE [unit |-> Head(tab)[1], rest |-> tab, removed |-> <<>>]
    ELSE [unit |-> Len(tab), rest |-> tab, removed |-> <<>>]

\* (b) at capacity the head is evicted without looking for a dead entry
SelectUnit_AlwaysHead(tab, al) ==
    IF Len(tab) >= MAX_TEXTURE_UNITS
    THEN [unit |-> Head(tab)[1], rest |-> Tail(tab), removed |-> <<Head(tab)>>]
    ELSE [unit |-> Len(tab), rest |-> tab, removed |-> <<>>]

\* (c) at capacity the dead entry nearest the tail is taken
SelectUnit_LastDead(tab, al) ==
    IF Len(tab) >= MAX_TEXTURE_UNITS
    THEN IF DeadPositions(tab, al) # {}
         THEN LET pos == CHOOSE x \in DeadPositions(tab, al) :
                             \A y \in DeadPositions(tab, al) : y <= x
              IN  [unit |-> tab[pos + 1][1], rest |-> RemoveAt(tab, pos), removed |-> <<tab[pos + 1]>>]
         ELSE [unit |-> Head(tab)[1], rest |-> Tail(tab), removed |-> <<Head(tab)>>]
    ELSE [unit |-> Len(tab), rest |-> tab, removed |-> <<>>]

\* (d) a dead entry is reused whatever the fill level
SelectUnit_ReusesDeadAlways(tab, al) ==
    IF DeadPositions(tab, al) # {}
    THEN LET pos == Min(DeadPositions(tab, al))
         IN  [unit |-> tab[pos + 1][1], rest |-> RemoveAt(tab, pos), removed |-> <<tab[pos + 1]>>]
    ELSE IF Len(tab) >= MAX_TEXTURE_UNITS
         THEN [unit |-> Head(tab)[1], rest |-> Tail(tab), removed |-> <<Head(tab)>>]
         ELSE [unit |-> Len(tab), rest |-> tab, removed |-> <<>>]

\* (e) at capacity the head is evicted and the table length is taken as the unit
SelectUnit_LengthAfterEvict(tab, al) ==
    IF Len(tab) >= MAX_TEXTURE_UNITS
    THEN [unit |-> Len(tab) - 1, rest |-> Tail(tab), removed |-> <<Head(tab)>>]
    ELSE [unit |-> Len(tab), rest |-> tab, removed |-> <<>>]

\* context.rs 239-251: the unit to bind at, the table after the removal and
\* the entry that was removed (<<>> when none was).
SelectUnit(tab, al) ==
    IF Len(tab) >= MAX_TEXTURE_UNITS
    THEN IF DeadPositions(tab, al) # {}
         THEN LET pos == Min(DeadPositions(tab, al))
              IN  [unit |-> tab[pos + 1][1], rest |-> RemoveAt(tab, pos), removed |-> <<tab[pos + 1]>>]
         ELSE [unit |-> Head(tab)[1], rest |-> Tail(tab), removed |-> <<Head(tab)>>]
    ELSE [unit |-> Len(tab), rest |-> tab, removed |-> <<>>]

\* context.rs 253-259: the debug assertion's condition
UnitIsFree(tab, unit) == \A i \in 1 .. Len(tab) : tab[i][1] # unit

\* Faulty variants of the cache-hit path: the entry is re-inserted at the
\* head, or is left where it is.
MoveToBack_Front(tab, pos, unit, new_tex) == <<<<unit, new_tex>>>> \o RemoveAt(tab, pos)

MoveToBack_InPlace(tab, pos, unit, new_tex) == tab

\* context.rs 233-234: move the found entry to the back
MoveToBack(tab, pos, unit, new_tex) == Append(RemoveAt(tab, pos), <<unit, new_tex>>)

\* Faulty variant: a failed bind records the unit at the tail.
AfterBind_FailAtTail(rest, unit, new_tex, ok) ==
    IF ok THEN Append(rest, <<unit, new_tex>>) ELSE Append(rest, <<unit, NoTex>>)

\* Faulty variant: a failed bind does not record the unit at all.
AfterBind_FailForgets(rest, unit, new_tex, ok) ==
    IF ok THEN Append(rest, <<unit, new_tex>>) ELSE rest

\* context.rs 261-269: the table after the bind callback returned
AfterBind(rest, unit, new_tex, ok) ==
    IF ok THEN Append(rest, <<unit, new_tex>>) ELSE <<<<unit, NoTex>>>> \o rest

\* ghost: new_tex becomes the most recently requested texture
Touch(rec, t) == Append(SelectSeq(rec, LAMBDA x : x # t), t)

\* Observation of one prepare_cache_tex call:
\*   tex        the texture requested
\*   pre, preAlive, preRecency, prevFailed   the state the call started from
\*   found      find_cache_tex matched
\*   bindUnits  the unit passed to the bind callback, once per invocation
\*   bindOk     what the callback returned (read only when it was invoked)
\*   removed    the entry unit selection removed, if any
\*   rest       the table between unit selection and the callback
\*   assertOk   the debug assertion's condition
\*   ret        <<"Ok", unit>> or <<"Err">>
NoTexCall ==
    [op |-> "none", tex |-> NoTex, found |-> FALSE, bindUnits |-> <<>>,
     bindOk |-> TRUE, ret |-> <<>>, pre |-> <<>>, preAlive |-> {}, rest |-> <<>>,
     removed |-> <<>>, assertOk |-> TRUE, prevFailed |-> <<>>, preRecency |-> <<>>]

TexInit ==
    /\ textures = <<>>
    /\ alive = {}
    /\ texCall = NoTexCall
    /\ recency = <<>>
    /\ failedUnit = <<>>
    /\ device = [u \in 0 .. (MAX_TEXTURE_UNITS - 1) |-> NoTex]

\* ------------------------------------------------------ texture owner steps
\* The asset system creates a texture.  Its identity is not named by any Weak
\* in the table (the allocation behind a Weak is not reused).
CreateTexture(t) ==
    /\ t \notin alive
    /\ \A i \in 1 .. Len(textures) : textures[i][2] # t
    /\ alive' = alive \cup {t}
    /\ UNCHANGED <<textures, texCall, recency, failedUnit, device, slotVars, stateVars>>

\* The last strong owner drops a texture.  A unit it was bound at now holds
\* no texture that exists; the identity may later stand for another texture.
DropTexture(t) ==
    /\ t \in alive
    /\ alive' = alive \ {t}
    /\ recency' = SelectSeq(recency, LAMBDA x : x # t)
    /\ device' = [u \in DOMAIN device |-> IF device[u] = t THEN NoTex ELSE device[u]]
    /\ UNCHANGED <<textures, texCall, failedUnit, slotVars, stateVars>>

\* --------------------------------------------------------- prepare_cache_tex
\* context.rs 227-272.  bindOk is the result of the caller's bind callback if
\* it gets invoked; the callback binds on the device and leaves the table alone.
prepare_cache_tex(new_tex, bindOk) ==
    /\ new_tex \in alive
    /\ LET f == find_cache_tex(textures, alive, new_tex)
           base == [NoTexCall EXCEPT !.op = "prepare_cache_tex", !.tex = new_tex,
                                     !.pre = textures, !.preAlive = alive,
                                     !.prevFailed = failedUnit, !.preRecency = recency]
       IN  IF f.found
           THEN /\ textures' = MoveToBack(textures, f.pos, f.unit, new_tex)
                /\ texCall' = [base EXCEPT !.found = TRUE, !.ret = <<"Ok", f.unit>>,
                                           !.rest = textures]
                /\ recency' = Touch(recency, new_tex)
                /\ UNCHANGED <<failedUnit, device>>
           ELSE LET sel == SelectUnit(textures, alive)
                IN  /\ textures' = AfterBind(sel.rest, sel.unit, new_tex, bindOk)
                    /\ texCall' = [base EXCEPT !.bindUnits = <<sel.unit>>,
                                               !.bindOk = bindOk,
                                               !.ret = IF bindOk THEN <<"Ok", sel.unit>>
                                                       ELSE <<"Err">>,
                                               !.rest = sel.rest, !.removed = sel.removed,
                                               !.assertOk = UnitIsFree(sel.rest, sel.unit)]
                    /\ recency' = IF bindOk THEN Touch(recency, new_tex) ELSE recency
                    /\ failedUnit' = IF bindOk THEN <<>> ELSE <<sel.unit>>
                    /\ device' = IF bindOk THEN [device EXCEPT ![sel.unit] = new_tex]
                                  ELSE device
    /\ UNCHANGED <<alive, slotVars, stateVars>>

TexNext ==
    \/ \E t \in Textures : CreateTexture(t)
    \/ \E t \in Textures : DropTexture(t)
    \/ \E t \in Textures, bindOk \in BOOLEAN : prepare_cache_tex(t, bindOk)

\* ======================================================================
\* Single-slot caches: EngineContext::prog and EngineContext::mesh_buffer
\* ======================================================================
\* Number of identities per resource kind that can exist at the same time.
NumResources == 2

Resources == 1 .. NumResources
\* Weak::default() of EngineContext::new
NoRes == NoTex
\* impl_cacher!(prog, ShaderProgram); impl_cacher!(mesh_buffer, MeshBuffer)
Kinds == {"prog", "mesh_buffer"}


\* EngineCacher::get_cache
get_cache(k) == IF k = "prog" THEN prog ELSE mesh_buffer

\* Faulty variant: every request is taken to need a bind.
need_cache_Always(cache, al, new_p) == TRUE

\* Faulty variant: any cached resource that is still alive counts as bound.
need_cache_LiveIsBound(cache, al, new_p) == cache \notin al

\* context.rs 275-283
need_cache(cache, al, new_p) ==
    IF cache \notin al THEN TRUE ELSE cache # new_p

\* Faulty variant: the cache is updated before the callback's result is looked at.
BindThenStore_StoreFirst(cache, new_p, ok) == new_p

\* context.rs 206-207: `bind(self)?` returns early on failure, else the
\* cache is set to the downgraded new_p
BindThenStore(cache, new_p, ok) == IF ok THEN new_p ELSE cache

\* Observation of one prepare_cache call: the resource, the cache before the
\* call, the number of callback invocations, the callback's result (read
\* only when it was invoked), the call's result, and the same for the call
\* of this kind that came before it (prev, empty when there was none).
NoSlotCall ==
    [op |-> "none", res |-> NoRes, preCache |-> NoRes, binds |-> 0, bindOk |-> TRUE,
     ret |-> "Ok", prev |-> <<>>]

SlotInit ==
    /\ prog = NoRes
    /\ mesh_buffer = NoRes
    /\ aliveRes = [k \in Kinds |-> {}]
    /\ slotCall = [k \in Kinds |-> NoSlotCall]

\* The asset system creates a resource; its identity is not the one the
\* cache's Weak still names.
CreateResource(k, r) ==
    /\ r \notin aliveRes[k]
    /\ get_cache(k) # r
    /\ aliveRes' = [aliveRes EXCEPT ![k] = @ \cup {r}]
    /\ UNCHANGED <<prog, mesh_buffer, slotCall, texVars, stateVars>>

DropResource(k, r) ==
    /\ r \in aliveRes[k]
    /\ aliveRes' = [aliveRes EXCEPT ![k] = @ \ {r}]
    /\ UNCHANGED <<prog, mesh_buffer, slotCall, texVars, stateVars>>

\* context.rs 200-211.  bindOk is the result of the bind callback if it gets
\* invoked; the callback leaves the cache of kind k alone.
prepare_cache(k, new_p, bindOk) ==
    /\ new_p \in aliveRes[k]
    /\ LET need == need_cache(get_cache(k), aliveRes[k], new_p)
           cache == IF need THEN BindThenStore(get_cache(k), new_p, bindOk) ELSE get_cache(k)
       IN  /\ prog' = IF k = "prog" THEN cache ELSE prog
           /\ mesh_buffer' = IF k = "mesh_buffer" THEN cache ELSE mesh_buffer
           /\ slotCall' = [slotCall EXCEPT ![k] =
                  [op |-> "prepare_cache", res |-> new_p, preCache |-> get_cache(k),
                   binds |-> IF need THEN 1 ELSE 0, bindOk |-> bindOk,
                   ret |-> IF need /\ ~bindOk THEN "Err" ELSE "Ok",
                   prev |-> IF @.op = "none" THEN <<>> ELSE <<[@ EXCEPT !.prev = <<>>]>>]]
    /\ UNCHANGED <<aliveRes, texVars, stateVars>>

SlotNext ==
    \/ \E k \in Kinds, r \in Resources : CreateResource(k, r)
    \/ \E k \in Kinds, r \in Resources : DropResource(k, r)
    \/ \E k \in Kinds, r \in Resources, bindOk \in BOOLEAN : prepare_cache(k, r, bindOk)

\* ======================================================================
\* Render state cache: StateCache
\* ======================================================================
\* Option<T>: None is <<>>, Some(v) is <<v>>.
None == <<>>
Some(v) == <<v>>

CullModes == {"Off", "Front", "Back", "FrontAndBack"}
DepthTests == {"Never", "Always", "Less", "LessEqual", "Greater", "NotEqual",
               "GreaterEqual", "Equal"}

Opt(S) == {None} \cup {Some(v) : v \in S}

\* MaterialState
MaterialStates ==
    [cull : Opt(CullModes), depth_test : Opt(DepthTests),
     alpha_blending : Opt(BOOLEAN), depth_write : Opt(BOOLEAN)]

\* Largest number of fields an overlay handed to apply carries.
MaxOverlayFields == 1

FieldCount(ms) ==
    Len(ms.cull) + Len(ms.depth_test) + Len(ms.alpha_blending) + Len(ms.depth_write)

\* the overlays apply is called with
Overlays == {ms \in MaterialStates : FieldCount(ms) <= MaxOverlayFields}

\* #[derive(Default)]
MaterialStateDefault ==
    [cull |-> None, depth_test |-> None, alpha_blending |-> None, depth_write |-> None]

\* context.rs 16-29: DepthTest -> uni_gl::DepthTest
as_gl_state(dt) ==
    CASE dt = "Never" -> "Never"
      [] dt = "Always" -> "Always"
      [] dt = "Less" -> "Less"
      [] dt = "LessEqual" -> "Lequal"
      [] dt = "Greater" -> "Greater"
      [] dt = "NotEqual" -> "Notequal"
      [] dt = "GreaterEqual" -> "Gequal"
      [] dt = "Equal" -> "Equal"


\* The device: capabilities and parameters, each unset until a call sets it.
GlInit ==
    [CullFace |-> None, cull_face |-> None, DepthTest |-> None, depth_func |-> None,
     depth_mask |-> None, Blend |-> None]

\* One call on the WebGLRenderingContext and its effect on the device.
GlCall(dev, call) ==
    CASE call[1] = "enable" -> [dev EXCEPT ![call[2]] = Some(TRUE)]
      [] call[1] = "disable" -> [dev EXCEPT ![call[2]] = Some(FALSE)]
      [] call[1] = "cull_face" -> [dev EXCEPT !.cull_face = Some(call[2])]
      [] call[1] = "depth_func" -> [dev EXCEPT !.depth_func = Some(call[2])]
      [] call[1] = "depth_mask" -> [dev EXCEPT !.depth_mask = Some(call[2] = "true")]

RECURSIVE GlCalls(_, _)
GlCalls(dev, calls) ==
    IF calls = <<>> THEN dev ELSE GlCalls(GlCall(dev, Head(calls)), Tail(calls))

BoolArg(b) == IF b THEN "true" ELSE "false"

\* The apply_* helpers work on c = [state, calls]: the applied state and the
\* device calls issued so far by the running commit.

\* Faulty variant: the device is updated but the applied value is not recorded.
apply_cull_NoRecord(c, cm) ==
    IF c.state.cull = Some(cm) THEN c
    ELSE [state |-> c.state,
          calls |-> c.calls \o
                    (IF cm = "Off" THEN << <<"disable", "CullFace">> >>
                     ELSE << <<"enable", "CullFace">>, <<"cull_face", cm>> >>)]

\* context.rs 108-134
apply_cull(c, cm) ==
    IF c.state.cull = Some(cm) THEN c
    ELSE [state |-> [c.state EXCEPT !.cull = Some(cm)],
          calls |-> c.calls \o
                    (IF cm = "Off" THEN << <<"disable", "CullFace">> >>
                     ELSE << <<"enable", "CullFace">>, <<"cull_face", cm>> >>)]

\* Faulty variant: Never is sent to the device as a comparison function.
apply_depth_test_NeverAsFunc(c, ct) ==
    IF c.state.depth_test = Some(ct) THEN c
    ELSE [state |-> [c.state EXCEPT !.depth_test = Some(ct)],
          calls |-> c.calls \o
                    << <<"enable", "DepthTest">>, <<"depth_func", as_gl_state(ct)>> >>]

\* context.rs 91-106
apply_depth_test(c, ct) ==
    IF c.state.depth_test = Some(ct) THEN c
    ELSE [state |-> [c.state EXCEPT !.depth_test = Some(ct)],
          calls |-> c.calls \o
                    (IF ct = "Never" THEN << <<"disable", "DepthTest">> >>
                     ELSE << <<"enable", "DepthTest">>, <<"depth_func", as_gl_state(ct)>> >>)]

\* Faulty variant: the comparison with the applied value is missing.
apply_depth_write_NoDiff(c, b) ==
    [state |-> [c.state EXCEPT !.depth_write = Some(b)],
     calls |-> Append(c.calls, <<"depth_mask", BoolArg(b)>>)]

\* context.rs 64-73
apply_depth_write(c, b) ==
    IF c.state.depth_write = Some(b) THEN c
    ELSE [state |-> [c.state EXCEPT !.depth_write = Some(b)],
          calls |-> Append(c.calls, <<"depth_mask", BoolArg(b)>>)]

\* Faulty variant: enable and disable are exchanged.
apply_alpha_blending_Inverted(c, b) ==
    IF c.state.alpha_blending = Some(b) THEN c
    ELSE [state |-> [c.state EXCEPT !.alpha_blending = Some(b)],
          calls |-> Append(c.calls, <<(IF b THEN "disable" ELSE "enable"), "Blend">>)]

\* context.rs 75-89
apply_alpha_blending(c, b) ==
    IF c.state.alpha_blending = Some(b) THEN c
    ELSE [state |-> [c.state EXCEPT !.alpha_blending = Some(b)],
          calls |-> Append(c.calls, <<(IF b THEN "enable" ELSE "disable"), "Blend">>)]

\* context.rs 55-62: the four fields in the order the code visits them
CommitResult(st, cu) ==
    LET c0 == [state |-> st, calls |-> <<>>]
        c1 == IF cu.cull = None THEN c0 ELSE apply_cull(c0, cu.cull[1])
        c2 == IF cu.depth_test = None THEN c1 ELSE apply_depth_test(c1, cu.depth_test[1])
        c3 == IF cu.depth_write = None THEN c2 ELSE apply_depth_write(c2, cu.depth_write[1])
        c4 == IF cu.alpha_blending = None THEN c3
              ELSE apply_alpha_blending(c3, cu.alpha_blending[1])
    IN  c4

\* Faulty variant: a field the overlay does not carry is cleared.
Merge_ClearsAbsent(cu, ms) ==
    [cull |-> ms.cull,
     depth_test |-> IF ms.depth_test = None THEN cu.depth_test ELSE ms.depth_test,
     depth_write |-> IF ms.depth_write = None THEN cu.depth_write ELSE ms.depth_write,
     alpha_blending |-> IF ms.alpha_blending = None THEN cu.alpha_blending
                        ELSE ms.alpha_blending]

\* context.rs 47-53
Merge(cu, ms) ==
    [cull |-> IF ms.cull = None THEN cu.cull ELSE ms.cull,
     depth_test |-> IF ms.depth_test = None THEN cu.depth_test ELSE ms.depth_test,
     depth_write |-> IF ms.depth_write = None THEN cu.depth_write ELSE ms.depth_write,
     alpha_blending |-> IF ms.alpha_blending = None THEN cu.alpha_blending
                        ELSE ms.alpha_blending]

\* Faulty variant: the baseline leaves the depth test as it is.
Defaults_KeepsDepthTest ==
    [cull |-> Some("Back"), depth_test |-> curr.depth_test,
     alpha_blending |-> Some(FALSE), depth_write |-> Some(TRUE)]

\* context.rs 39-44
Defaults ==
    [cull |-> Some("Back"), depth_test |-> Some("Less"),
     alpha_blending |-> Some(FALSE), depth_write |-> Some(TRUE)]

StateInit ==
    /\ state = MaterialStateDefault
    /\ curr = MaterialStateDefault
    /\ gl = GlInit
    /\ glCalls = <<>>
    /\ lastOp = "none"
    /\ recordOverlay = FALSE
    /\ lastOverlay = None

\* context.rs 38-45
apply_defaults ==
    /\ curr' = Defaults
    /\ glCalls' = <<>>
    /\ lastOp' = "apply_defaults"
    /\ lastOverlay' = None
    /\ UNCHANGED <<state, gl, recordOverlay, texVars, slotVars>>

\* context.rs 47-53
apply(ms) ==
    /\ curr' = Merge(curr, ms)
    /\ glCalls' = <<>>
    /\ lastOp' = "apply"
    /\ lastOverlay' = IF recordOverlay THEN Some(ms) ELSE None
    /\ UNCHANGED <<state, gl, recordOverlay, texVars, slotVars>>

\* context.rs 55-62
commit ==
    /\ LET c == CommitResult(state, curr)
       IN  /\ state' = c.state
           /\ glCalls' = c.calls
           /\ gl' = GlCalls(gl, c.calls)
    /\ lastOp' = "commit"
    /\ lastOverlay' = None
    /\ UNCHANGED <<curr, recordOverlay, texVars, slotVars>>

StateNext ==
    \/ apply_defaults
    \/ \E ms \in Overlays : apply(ms)
    \/ commit

\* The merge of overlays into pending on its own: every overlay, no commit,
\* and the overlay given to apply observed.
ApplyInit ==
    /\ state = MaterialStateDefault
    /\ curr = MaterialStateDefault
    /\ gl = GlInit
    /\ glCalls = <<>>
    /\ lastOp = "none"
    /\ recordOverlay = TRUE
    /\ lastOverlay = None

ApplyNext ==
    \/ apply_defaults
    \/ \E ms \in MaterialStates : apply(ms)

\* ======================================================================
\* Specifications
\* ======================================================================
Init == TexInit /\ SlotInit /\ StateInit

\* The three caches share no field: every operation leaves the other two
\* caches as they are.
Next == TexNext \/ SlotNext \/ StateNext

Spec == Init /\ [][Next]_vars

\* The texture-unit table, the single-slot caches and the render-state cache
\* on their own.
SpecTex == Init /\ [][TexNext]_vars

SpecSlot == Init /\ [][SlotNext]_vars

SpecState == Init /\ [][StateNext]_vars

InitApply == TexInit /\ SlotInit /\ ApplyInit

SpecApply == InitApply /\ [][ApplyNext]_vars

\* ======================================================================
\* Properties of the texture-unit table (checked under SpecTex)
\* ======================================================================
IsTexCall == texCall.op = "prepare_cache_tex"

\* the requested texture has an entry in the table the call started from
RequestedInTable == \E i \in 1 .. Len(texCall.pre) : texCall.pre[i][2] = texCall.tex

DeadIn(tab, al) == {i \in 1 .. Len(tab) : tab[i][2] \notin al}

\* 1-based position of t in the recency order (0 when absent)
RecencyPos(rec, t) == IF \E i \in 1 .. Len(rec) : rec[i] = t
                      THEN CHOOSE i \in 1 .. Len(rec) : rec[i] = t
                      ELSE 0

\* C1: after every call, with any mix of succeeding and failing binds and of
\* textures dropped in between, the unit indices in the table are pairwise
\* distinct and the table holds at most MAX_TEXTURE_UNITS entries.
C1_UnitsDistinctAndBounded ==
    /\ Len(textures) <= MAX_TEXTURE_UNITS
    /\ \A i, j \in 1 .. Len(textures) : i # j => textures[i][1] # textures[j][1]

\* a full table holding a dead entry, reached through a failed bind
C1_Witness ==
    /\ IsTexCall /\ texCall.ret = <<"Err">>
    /\ Len(textures) = MAX_TEXTURE_UNITS
    /\ Len(texCall.pre) = MAX_TEXTURE_UNITS
    /\ \E i \in 1 .. Len(textures) : textures[i][2] \in Textures \ alive

\* C4: a request for a texture that has a live entry (u, texture) invokes no
\* bind callback, returns Ok(u), leaves that entry at the tail and keeps the
\* other entries' units and relative order.
C4_HitMovesEntryToTail ==
    (IsTexCall /\ RequestedInTable) =>
        LET i == CHOOSE k \in 1 .. Len(texCall.pre) : texCall.pre[k][2] = texCall.tex
            e == texCall.pre[i]
            Others(tab) == SelectSeq(tab, LAMBDA x : x # e)
        IN  /\ texCall.bindUnits = <<>>
            /\ texCall.ret = <<"Ok", e[1]>>
            /\ Len(textures) = Len(texCall.pre)
            /\ textures[Len(textures)] = e
            /\ Others(textures) = Others(texCall.pre)
            /\ Len(Others(textures)) = Len(textures) - 1

\* a hit on an entry that was not already at the tail
C4_Witness ==
    /\ IsTexCall /\ RequestedInTable
    /\ Len(texCall.pre) >= 2
    /\ texCall.pre[1][2] = texCall.tex
    /\ textures # texCall.pre

\* C5: at capacity, for a texture not in the table: if some entry is dead the
\* unit chosen is that of the dead entry nearest the head and every live
\* entry stays; a live entry is removed only when no entry is dead.  With
\* capacity 2, after bind A, bind B, drop A, the bind of C gets unit 0 and
\* leaves [(1,B),(0,C)].
C5_DeadBeforeLive ==
    (IsTexCall /\ ~RequestedInTable /\ Len(texCall.pre) >= MAX_TEXTURE_UNITS) =>
        LET pre == texCall.pre
            dead == DeadIn(pre, texCall.preAlive)
        IN  /\ dead # {} =>
                LET d == CHOOSE x \in dead : \A y \in dead : x <= y
                IN  /\ texCall.bindUnits = <<pre[d][1]>>
                    /\ texCall.removed = <<pre[d]>>
                    /\ \A i \in 1 .. Len(pre) :
                          i \notin dead => \E j \in 1 .. Len(textures) : textures[j] = pre[i]
            /\ (texCall.removed # <<>> /\ texCall.removed[1][2] \in texCall.preAlive)
                   => dead = {}
            /\ \A a, b, c \in Textures :
                  ( /\ MAX_TEXTURE_UNITS = 2
                    /\ pre = << <<0, a>>, <<1, b>> >>
                    /\ a \notin texCall.preAlive /\ b \in texCall.preAlive
                    /\ texCall.tex = c /\ texCall.bindOk )
                  => /\ texCall.ret = <<"Ok", 0>>
                     /\ textures = << <<1, b>>, <<0, c>> >>

\* the capacity-2 scenario with A = 1, B = 2, C = 3
C5_Witness ==
    /\ IsTexCall /\ texCall.tex = 3
    /\ texCall.pre = << <<0, 1>>, <<1, 2>> >>
    /\ 1 \notin texCall.preAlive /\ 2 \in texCall.preAlive
    /\ textures = << <<1, 2>>, <<0, 3>> >>

\* C6: at capacity with every entry alive, for a texture not in the table, the
\* entry evicted is the head, its unit is the one passed to the bind callback,
\* and the head's texture is the one whose latest request is the oldest among
\* the textures in the table.
C6_EvictsLeastRecentlyUsed ==
    ( /\ IsTexCall /\ ~RequestedInTable
      /\ Len(texCall.pre) >= MAX_TEXTURE_UNITS
      /\ DeadIn(texCall.pre, texCall.preAlive) = {} ) =>
        LET pre == texCall.pre
        IN  /\ texCall.removed = <<pre[1]>>
            /\ texCall.bindUnits = <<pre[1][1]>>
            /\ \A i \in 1 .. Len(pre) : RecencyPos(texCall.preRecency, pre[i][2]) > 0
            /\ \A i \in 2 .. Len(pre) :
                  RecencyPos(texCall.preRecency, pre[1][2])
                      < RecencyPos(texCall.preRecency, pre[i][2])

\* an eviction from a table whose order came from a cache hit: the head was
\* bound after some other entry
C6_Witness ==
    /\ IsTexCall /\ ~RequestedInTable
    /\ Len(texCall.pre) >= MAX_TEXTURE_UNITS
    /\ DeadIn(texCall.pre, texCall.preAlive) = {}
    /\ texCall.pre[1][1] # 0
    /\ texCall.removed = <<texCall.pre[1]>>

\* C7: the call returns an error exactly when it invoked the bind callback at
\* some unit u and the callback failed; the table is then (u, unresolvable)
\* followed by the entries left by unit selection in their previous order,
\* and no entry names the requested texture.
C7_FailedBindLeavesDeadHead ==
    IsTexCall =>
        /\ (texCall.ret = <<"Err">>) <=> (Len(texCall.bindUnits) = 1 /\ ~texCall.bindOk)
        /\ (texCall.ret = <<"Err">>) =>
              LET u == texCall.bindUnits[1]
                  kept == IF texCall.removed = <<>> THEN texCall.pre
                          ELSE SelectSeq(texCall.pre, LAMBDA x : x # texCall.removed[1])
              IN  /\ textures = << <<u, NoTex>> >> \o kept
                  /\ Len(kept) = Len(texCall.pre) - Len(texCall.removed)
                  /\ \A i \in 1 .. Len(textures) : textures[i][2] # texCall.tex

\* a failed bind into a table that keeps other entries
C7_Witness ==
    /\ IsTexCall /\ texCall.ret = <<"Err">>
    /\ Len(textures) >= 2
    /\ texCall.removed # <<>>

\* C8 as claimed: after a failed bind at unit u, the next call that allocates a
\* unit chooses u, whatever the fill level of the table.
C8_NextAllocationReusesFailedUnit ==
    (IsTexCall /\ ~RequestedInTable /\ texCall.prevFailed # <<>>) =>
        texCall.bindUnits = texCall.prevFailed

\* C8 amended: after a failed bind at unit u, the next call that allocates a
\* unit chooses u if the table is at capacity; below capacity it chooses the
\* table length, which is not u.
C8_ReusesFailedUnitAtCapacity ==
    (IsTexCall /\ ~RequestedInTable /\ texCall.prevFailed # <<>>) =>
        IF Len(texCall.pre) >= MAX_TEXTURE_UNITS
        THEN texCall.bindUnits = texCall.prevFailed
        ELSE /\ texCall.bindUnits = <<Len(texCall.pre)>>
             /\ texCall.bindUnits # texCall.prevFailed

\* the failed unit is reused although another entry has died in between
C8_Witness ==
    /\ IsTexCall /\ ~RequestedInTable /\ texCall.prevFailed # <<>>
    /\ Len(texCall.pre) >= MAX_TEXTURE_UNITS
    /\ Cardinality(DeadIn(texCall.pre, texCall.preAlive)) >= 2
    /\ texCall.bindUnits = texCall.prevFailed

\* C17: every table entry (u, t) whose reference resolves has t as the
\* texture of the last successful bind at unit u, so a request answered from
\* the table without a bind returns the unit the requested texture was last
\* successfully bound at.
\* (Owner steps change `alive`; every other step is a prepare_cache_tex call.)
C17_HitsAreNeverStale ==
    [][ /\ \A i \in 1 .. Len(textures') :
              textures'[i][2] \in alive' => device'[textures'[i][1]] = textures'[i][2]
        /\ (alive' = alive /\ texCall'.found) =>
              /\ texCall'.bindUnits = <<>>
              /\ texCall'.ret # <<"Err">>
              /\ device'[texCall'.ret[2]] = texCall'.tex
              /\ device[texCall'.ret[2]] = texCall'.tex
      ]_vars

\* a hit on a full table after an eviction and a failed bind took place:
\* some unit was bound more than once before the requested texture was found
C17_Witness ==
    /\ IsTexCall /\ texCall.found
    /\ Len(texCall.pre) >= MAX_TEXTURE_UNITS
    /\ DeadIn(texCall.pre, texCall.preAlive) # {}
    /\ texCall.tex \in alive
    /\ device[texCall.ret[2]] = texCall.tex
    /\ \E u \in DOMAIN device : device[u] \notin {NoTex, texCall.tex}

\* the unit indices held in a table
UnitsOf(tab) == {tab[i][1] : i \in 1 .. Len(tab)}

\* C15: in every call that reaches unit selection, from every reachable table
\* (dead entries of failed binds and of dropped textures included), the unit
\* chosen is not in the table when the assertion is evaluated.
C15_AssertionHolds ==
    (IsTexCall /\ texCall.bindUnits # <<>>) =>
        /\ texCall.assertOk
        /\ texCall.bindUnits[1] \notin UnitsOf(texCall.rest)
        /\ texCall.bindUnits[1] \notin
              UnitsOf(SelectSeq(texCall.pre, LAMBDA e : <<e>> # texCall.removed))

\* unit selection on a full table that holds the dead entry of a failed bind
\* and the entry of a dropped texture
C15_Witness ==
    /\ IsTexCall /\ texCall.bindUnits # <<>>
    /\ Len(texCall.pre) >= MAX_TEXTURE_UNITS
    /\ \E i, j \in 1 .. Len(texCall.pre) :
          /\ texCall.pre[i][2] = NoTex
          /\ texCall.pre[j][2] \in Textures \ texCall.preAlive

\* C16: for a texture not in the table while the table is below capacity, the
\* unit passed to the bind callback is the table length and no entry is
\* removed, dead entries or not; the table grows by one entry whether the
\* callback succeeds or fails.
C16_BelowCapacityTakesLength ==
    (IsTexCall /\ ~RequestedInTable /\ Len(texCall.pre) < MAX_TEXTURE_UNITS) =>
        /\ texCall.bindUnits = <<Len(texCall.pre)>>
        /\ texCall.removed = <<>>
        /\ Len(textures) = Len(texCall.pre) + 1
        /\ \A i \in 1 .. Len(texCall.pre) :
              \E j \in 1 .. Len(textures) : textures[j] = texCall.pre[i]

\* a failed bind below capacity into a table that holds a dead entry
C16_Witness ==
    /\ IsTexCall /\ ~RequestedInTable /\ Len(texCall.pre) < MAX_TEXTURE_UNITS
    /\ DeadIn(texCall.pre, texCall.preAlive) # {}
    /\ texCall.ret = <<"Err">>
    /\ Len(textures) = Len(texCall.pre) + 1

\* C19: after every call the unit indices in the table are exactly
\* 0 .. len-1, every unit returned or passed to a bind callback is below
\* MAX_TEXTURE_UNITS, and the table is not shorter than before the call.
C19_UnitsAreInitialSegment ==
    /\ UnitsOf(textures) = 0 .. (Len(textures) - 1)
    /\ Len(textures) >= Len(texCall.pre)
    /\ \A i \in 1 .. Len(texCall.bindUnits) :
          texCall.bindUnits[i] \in 0 .. (MAX_TEXTURE_UNITS - 1)
    /\ (IsTexCall /\ texCall.ret # <<"Err">>) =>
          texCall.ret[2] \in 0 .. (MAX_TEXTURE_UNITS - 1)

\* a full table in which only dead entries are left
C19_Witness ==
    /\ IsTexCall
    /\ Len(textures) = MAX_TEXTURE_UNITS
    /\ DeadIn(textures, alive) = 1 .. Len(textures)
    /\ \E i \in 1 .. Len(textures) : textures[i][2] \in Textures

\* C20: no two entries hold references that resolve to the same texture, so
\* a live texture has at most one entry and one unit.
C20_OneEntryPerLiveTexture ==
    \A i, j \in 1 .. Len(textures) :
        (i # j /\ textures[i][2] \in alive) => textures[i][2] # textures[j][2]

\* a texture requested again after another one was bound, both in the table
C20_Witness ==
    /\ IsTexCall /\ RequestedInTable
    /\ Len(textures) >= 2
    /\ \A i \in 1 .. Len(textures) : textures[i][2] \in alive

\* ======================================================================
\* Properties of the single-slot caches (checked under SpecSlot)
\* ======================================================================
\* C2: for each resource kind, two requests in a row for the same resource,
\* which was not cached before the first and whose bind succeeds, invoke the
\* bind callback once in total; the second invokes none, returns Ok and
\* leaves the cache as it was.
C2_SecondRequestIsNoOp ==
    \A k \in Kinds :
        LET c == slotCall[k]
        IN  ( /\ c.op = "prepare_cache" /\ c.prev # <<>>
              /\ c.prev[1].res = c.res
              /\ c.prev[1].preCache # c.res
              /\ c.prev[1].bindOk ) =>
                /\ c.prev[1].binds + c.binds = 1
                /\ c.binds = 0
                /\ c.ret = "Ok"
                /\ get_cache(k) = c.preCache
                /\ get_cache(k) = c.res

\* the second request came with a callback that would have failed
C2_Witness ==
    \E k \in Kinds :
        /\ slotCall[k].op = "prepare_cache" /\ slotCall[k].prev # <<>>
        /\ slotCall[k].prev[1].res = slotCall[k].res
        /\ slotCall[k].prev[1].preCache # slotCall[k].res
        /\ slotCall[k].prev[1].bindOk
        /\ ~slotCall[k].bindOk
        /\ slotCall[k].binds = 0

\* C3: prepare_cache returns an error exactly when it invoked the bind
\* callback and the callback failed, and the cache of that kind then holds
\* the reference it held before the call.
C3_FailedBindKeepsCache ==
    \A k \in Kinds :
        LET c == slotCall[k]
        IN  c.op = "prepare_cache" =>
                /\ (c.ret = "Err") <=> (c.binds = 1 /\ ~c.bindOk)
                /\ (c.ret = "Err") => (get_cache(k) = c.preCache /\ get_cache(k) # c.res)

\* a failed bind while another, still live resource is cached
C3_Witness ==
    \E k \in Kinds :
        /\ slotCall[k].op = "prepare_cache" /\ slotCall[k].ret = "Err"
        /\ slotCall[k].preCache \in aliveRes[k]
        /\ get_cache(k) = slotCall[k].preCache

\* C14: prepare_cache invokes the bind callback once when the cached weak
\* reference does not resolve or resolves to another object than the
\* requested one, and not at all when it resolves to the requested one; it
\* never invokes it a second time, and after a successful callback the cache
\* refers to the requested resource.
C14_BindsExactlyWhenNotCached ==
    [][ \A k \in Kinds :
          slotCall'[k] # slotCall[k] =>
              LET c == slotCall'[k]
                  cached == get_cache(k)
                  cachedAfter == IF k = "prog" THEN prog' ELSE mesh_buffer'
                  resolvesToRequested == cached \in aliveRes[k] /\ cached = c.res
              IN  /\ c.res \in aliveRes[k]
                  /\ c.binds = IF resolvesToRequested THEN 0 ELSE 1
                  /\ (c.binds = 1 /\ c.bindOk) => cachedAfter = c.res
                  /\ (c.binds = 1 /\ ~c.bindOk) => (c.ret = "Err" /\ cachedAfter = cached)
      ]_vars

\* a resource requested twice, the second time without a bind, then another
\* resource requested and bound while the cache held the first
C14_Witness ==
    \E k \in Kinds :
        /\ slotCall[k].op = "prepare_cache" /\ slotCall[k].prev # <<>>
        /\ slotCall[k].binds = 1 /\ slotCall[k].bindOk
        /\ slotCall[k].preCache \in Resources
        /\ slotCall[k].preCache # slotCall[k].res
        /\ slotCall[k].prev[1].res = slotCall[k].preCache
        /\ slotCall[k].prev[1].binds = 0
        /\ get_cache(k) = slotCall[k].res

\* ======================================================================
\* Properties of the render-state cache (checked under SpecState)
\* ======================================================================
\* the calls of a commit that belong to one field's device update
CallsOf(calls, names, args) ==
    SelectSeq(calls, LAMBDA c : c[1] \in names /\ c[2] \in args)

CapabilityCalls(calls, cap) == CallsOf(calls, {"enable", "disable"}, {cap})

CullIssued(calls) ==
    CapabilityCalls(calls, "CullFace") # <<>> \/ CallsOf(calls, {"cull_face"}, CullModes) # <<>>

GlDepthFuncs == {"Never", "Always", "Less", "Lequal", "Greater", "Notequal", "Gequal", "Equal"}

DepthTestIssued(calls) ==
    CapabilityCalls(calls, "DepthTest") # <<>>
        \/ CallsOf(calls, {"depth_func"}, GlDepthFuncs) # <<>>

DepthWriteIssued(calls) == CallsOf(calls, {"depth_mask"}, {"true", "false"}) # <<>>

BlendIssued(calls) == CapabilityCalls(calls, "Blend") # <<>>

\* C9: a commit issues the device update of each of the four fields at most
\* once, and only for a field whose pending value is present and differs
\* from the applied value the previous commit left (or applied has none); a
\* commit right after a commit issues no device call.
C9_CommitIssuesOnlyDifferences ==
    [][ lastOp' = "commit" =>
          /\ Len(CapabilityCalls(glCalls', "CullFace")) <= 1
          /\ Len(CallsOf(glCalls', {"cull_face"}, CullModes)) <= 1
          /\ Len(CapabilityCalls(glCalls', "DepthTest")) <= 1
          /\ Len(CallsOf(glCalls', {"depth_func"}, GlDepthFuncs)) <= 1
          /\ Len(CallsOf(glCalls', {"depth_mask"}, {"true", "false"})) <= 1
          /\ Len(CapabilityCalls(glCalls', "Blend")) <= 1
          /\ CullIssued(glCalls') => (curr.cull # None /\ curr.cull # state.cull)
          /\ DepthTestIssued(glCalls') =>
                (curr.depth_test # None /\ curr.depth_test # state.depth_test)
          /\ DepthWriteIssued(glCalls') =>
                (curr.depth_write # None /\ curr.depth_write # state.depth_write)
          /\ BlendIssued(glCalls') =>
                (curr.alpha_blending # None /\ curr.alpha_blending # state.alpha_blending)
          /\ lastOp = "commit" => glCalls' = <<>>
      ]_vars

\* a commit that had all four fields pending and sent only some of them
C9_Witness ==
    /\ lastOp = "commit"
    /\ curr.cull # None /\ curr.depth_test # None
    /\ curr.depth_write # None /\ curr.alpha_blending # None
    /\ DepthWriteIssued(glCalls) /\ CullIssued(glCalls)
    /\ ~DepthTestIssued(glCalls) /\ ~BlendIssued(glCalls)

\* the device comparison function that goes with each depth test but Never
MatchingDepthFunc ==
    [v \in DepthTests \ {"Never"} |->
        CASE v = "Always" -> "Always"
          [] v = "Less" -> "Less"
          [] v = "LessEqual" -> "Lequal"
          [] v = "Greater" -> "Greater"
          [] v = "NotEqual" -> "Notequal"
          [] v = "GreaterEqual" -> "Gequal"
          [] v = "Equal" -> "Equal"]

\* C10: after a commit with a pending depth test of Never the device's depth
\* test capability is disabled and that commit set no comparison function;
\* after a commit with any other pending value v the capability is enabled
\* and the device's comparison function is the one matching v.
C10_DepthTestOnDevice ==
    lastOp = "commit" =>
        /\ curr.depth_test = Some("Never") =>
              /\ gl.DepthTest = Some(FALSE)
              /\ CallsOf(glCalls, {"depth_func"}, GlDepthFuncs) = <<>>
        /\ \A v \in DepthTests \ {"Never"} :
              curr.depth_test = Some(v) =>
                  /\ gl.DepthTest = Some(TRUE)
                  /\ gl.depth_func = Some(MatchingDepthFunc[v])

\* Never committed after another depth test had been on the device
C10_Witness ==
    /\ lastOp = "commit"
    /\ curr.depth_test = Some("Never")
    /\ <<"disable", "DepthTest">> \in {glCalls[i] : i \in 1 .. Len(glCalls)}
    /\ gl.depth_func = Some("Lequal")

Fields == {"cull", "depth_test", "alpha_blending", "depth_write"}

\* C11: applied changes only in commit.  apply and apply_defaults leave every
\* applied field as it is; commit sets applied[f] to pending[f] for exactly
\* the fields whose pending value is present and differs from applied[f],
\* and leaves the other applied fields and all of pending as they are.
C11_AppliedChangesOnlyInCommit ==
    [][ /\ lastOp' \in {"apply", "apply_defaults"} => state' = state
        /\ lastOp' = "commit" =>
              /\ \A f \in Fields :
                    state'[f] = IF curr[f] # None /\ curr[f] # state[f] THEN curr[f]
                                ELSE state[f]
              /\ curr' = curr
      ]_vars

\* a commit that changed one applied field, kept another that was pending
\* with the same value, and had a field absent from pending
C11_Witness ==
    /\ lastOp = "commit"
    /\ CullIssued(glCalls) /\ state.cull = curr.cull
    /\ curr.depth_test # None /\ ~DepthTestIssued(glCalls)
    /\ curr.alpha_blending = None /\ state.alpha_blending = None

\* the baseline of apply_defaults
Baseline ==
    [cull |-> <<"Back">>, depth_test |-> <<"Less">>,
     alpha_blending |-> <<FALSE>>, depth_write |-> <<TRUE>>]

\* C13: apply_defaults sets all four pending fields to the baseline whatever
\* pending held, issues no device call and leaves applied as it is; a commit
\* directly after it leaves applied equal to the baseline in all four fields.
C13_DefaultsThenCommit ==
    [][ /\ lastOp' = "apply_defaults" =>
              /\ curr' = Baseline
              /\ glCalls' = <<>> /\ gl' = gl
              /\ state' = state
        /\ (lastOp = "apply_defaults" /\ lastOp' = "commit") => state' = Baseline
      ]_vars

\* a commit that had to send all four baseline values to the device
C13_Witness ==
    /\ lastOp = "commit"
    /\ state = Baseline /\ curr = Baseline
    /\ CullIssued(glCalls) /\ DepthTestIssued(glCalls)
    /\ DepthWriteIssued(glCalls) /\ BlendIssued(glCalls)

\* C18: the applied state mirrors the device.  For every field applied has
\* set: cull Off means face culling disabled and any other mode means it is
\* enabled with that mode; depth test Never means the capability disabled
\* and any other value means it enabled with the matching function; depth
\* write b means depth mask b; alpha blending b means blending is on iff b.
C18_AppliedMirrorsDevice ==
    /\ state.cull = Some("Off") => gl.CullFace = Some(FALSE)
    /\ \A m \in CullModes \ {"Off"} :
          state.cull = Some(m) => (gl.CullFace = Some(TRUE) /\ gl.cull_face = Some(m))
    /\ state.depth_test = Some("Never") => gl.DepthTest = Some(FALSE)
    /\ \A v \in DepthTests \ {"Never"} :
          state.depth_test = Some(v) =>
              (gl.DepthTest = Some(TRUE) /\ gl.depth_func = Some(MatchingDepthFunc[v]))
    /\ \A b \in BOOLEAN :
          /\ state.depth_write = Some(b) => gl.depth_mask = Some(b)
          /\ state.alpha_blending = Some(b) => gl.Blend = Some(b)

\* all four fields applied, culling and the depth test switched off after a
\* mode and a function had been set on the device
C18_Witness ==
    /\ state.cull = Some("Off") /\ gl.cull_face = Some("Front")
    /\ state.depth_test = Some("Never") /\ gl.depth_func = Some("Gequal")
    /\ state.depth_write = Some(FALSE)
    /\ state.alpha_blending = Some(TRUE)

\* ======================================================================
\* Properties of apply (checked under SpecApply)
\* ======================================================================
\* C12: apply(overlay) issues no device call and, for each of the four fields
\* on its own, sets pending[f] to overlay[f] if the overlay has the field and
\* leaves pending[f] as it was otherwise.
C12_ApplyMergesPerField ==
    [][ lastOp' = "apply" =>
          /\ lastOverlay' # None
          /\ \A f \in Fields :
                curr'[f] = IF lastOverlay'[1][f] # None THEN lastOverlay'[1][f]
                           ELSE curr[f]
          /\ glCalls' = <<>> /\ gl' = gl
          /\ state' = state
      ]_vars

\* an overlay with two fields, one overwriting a pending value and one
\* setting a field for the first time, while a third pending field is kept
C12_Witness ==
    /\ lastOp = "apply" /\ lastOverlay # None
    /\ lastOverlay[1].cull = Some("Front") /\ lastOverlay[1].depth_write = Some(FALSE)
    /\ lastOverlay[1].depth_test = None /\ lastOverlay[1].alpha_blending = None
    /\ curr.cull = Some("Front") /\ curr.depth_write = Some(FALSE)
    /\ curr.depth_test = Some("Greater") /\ curr.alpha_blending = None

====
